---- MODULE Spec2Model ----
\* nuhound: error records (Nuhound), chain flattening (link, here!, easy),
\* trace rendering and the Result / Option adapters of src/src/lib.rs.
\*
\* Text is a sequence of one-character strings, so that formatting, joining
\* and prefixing are computed character by character.
EXTENDS Integers, Sequences, FiniteSets, TLC

VARIABLES
    disclose,   \* cfg(feature = "disclose"): fixed when the crate is built
    r,          \* the outcome the caller holds: a Result or an Option
    out,        \* the text produced by the last trace() / to_string()
    last,       \* the last call: its name, the outcome it was given, its closure,
                \* and the record given to caused_by as the new cause
    wrapped,    \* the outcome before, and the texts of, the report(|e| here!(e, inform))
                \* calls made in a row on a failure
    run         \* one call of link / here! / easy / trace executed statement by
                \* statement: its position and its local variables

vars == <<disclose, r, out, last, wrapped, run>>

\* ---------------------------------------------------------------- bounds
\* here!(e) is not applied to a text longer than this (it would tag the text
\* again and again when disclose is on)
MaxText == 21
\* deepest foreign error chain with arbitrary texts
MaxDepth == 3
\* a record of this many layers is not wrapped further
MaxChain == 3
\* longest foreign chain (one repeated text), so trace indices reach two digits
MaxLong == 11

\* the texts callers and foreign errors supply
Texts == {<<>>, <<"a">>, <<"b", "\n", "c">>}

\* values carried by Ok / Some, each with the name of its type T
Vals == {[ty |-> "u32", x |-> 4], [ty |-> "bool", x |-> 1]}

Types == {v.ty : v \in Vals}

\* call sites of here! (file!(), line!(), column!())
Locs ==
    {[file |-> <<"e", "x", "a", "m", "p", "l", "e", "s", "/", "e", "a", "s", "y", ".", "r", "s">>,
      line |-> 28, column |-> 46]}

\* ---------------------------------------------------------------- values
\* Option<X>: <<>> is None, <<x>> is Some(x)
is_some(opt) == opt # <<>>

\* Option::unwrap; a None is the panic value
Panicked == [panic |-> "called Option::unwrap() on a None value"]

unwrap(opt) == IF is_some(opt) THEN opt[1] ELSE Panicked

\* Vec::pop: the last element (or None) and the vector left behind
pop(vec) ==
    IF Len(vec) = 0 THEN [item |-> <<>>, vec |-> vec]
    ELSE [item |-> <<vec[Len(vec)]>>, vec |-> SubSeq(vec, 1, Len(vec) - 1)]

\* a foreign error (std::error::Error that is no Nuhound): a text and
\* an optional further cause
RECURSIVE ForeignChains(_)
ForeignChains(d) ==
    IF d <= 1 THEN {[text |-> t, cause |-> <<>>] : t \in Texts}
    ELSE LET S == ForeignChains(d - 1)
         IN  S \cup {[text |-> t, cause |-> <<c>>] : t \in Texts, c \in S}

RECURSIVE LongChain(_, _)
LongChain(t, n) ==
    IF n <= 1 THEN [text |-> t, cause |-> <<>>]
    ELSE [text |-> t, cause |-> <<LongChain(t, n - 1)>>]

ForeignInputs ==
    ForeignChains(MaxDepth)
        \cup {LongChain(<<"a">>, n) : n \in (MaxLong - 1)..MaxLong}

\* struct Nuhound { source: Option<Box<Nuhound>>, message: String }
Nuhound_new(inform) == [source |-> <<>>, message |-> inform]

is_nuhound(val) == DOMAIN val = {"source", "message"}

\* a Display that also writes the cause
Display_fmt_with_cause(self) ==
    IF is_some(self.source)
    THEN self.message \o <<":", " ">> \o self.source[1].message
    ELSE self.message

\* a Display that writes the cause on a second line
Display_fmt_two_lines(self) ==
    IF is_some(self.source)
    THEN self.message \o <<"\n">> \o self.source[1].message
    ELSE self.message

\* impl fmt::Display for Nuhound
Display_fmt(self) == self.message

\* impl Error for Nuhound: source()
Nuhound_source(self) ==
    IF is_some(self.source) THEN <<self.source[1]>> ELSE <<>>

\* dyn Error: Display and source() of whichever error type the value has
to_string(e) == IF is_nuhound(e) THEN Display_fmt(e) ELSE e.text

source(e) == IF is_nuhound(e) THEN Nuhound_source(e) ELSE e.cause

\* caused_by that appends to the end of the chain self has already
RECURSIVE caused_by_appending(_, _)
caused_by_appending(self, src) ==
    IF is_some(self.source)
    THEN [self EXCEPT !.source = <<caused_by_appending(self.source[1], src)>>]
    ELSE [self EXCEPT !.source = <<src>>]

\* caused_by that boxes only the top layer of its argument
caused_by_top_only(self, src) == [self EXCEPT !.source = <<Nuhound_new(src.message)>>]

\* Nuhound::caused_by
caused_by(self, src) == [self EXCEPT !.source = <<src>>]

\* -------------------------------------------------------------- rendering
Digit(d) == <<"0", "1", "2", "3", "4", "5", "6", "7", "8", "9">>[d + 1]

\* Display of an integer
RECURSIVE Decimal(_)
Decimal(n) ==
    IF n < 10 THEN <<Digit(n)>> ELSE Decimal(n \div 10) \o <<Digit(n % 10)>>

\* the {:2} format width: pad on the left to at least w characters
RECURSIVE PadLeft(_, _)
PadLeft(s, w) == IF Len(s) < w THEN PadLeft(<<" ">> \o s, w) ELSE s

\* [String]::join
RECURSIVE join(_, _)
join(list, sep) ==
    IF Len(list) = 0 THEN <<>>
    ELSE IF Len(list) = 1 THEN list[1]
    ELSE list[1] \o sep \o join(Tail(list), sep)

\* the loop of trace without its n += 1
RECURSIVE trace_loop_same_n(_, _, _)
trace_loop_same_n(trace_list, n, item) ==
    IF is_some(item)
    THEN LET this == unwrap(item)
         IN  trace_loop_same_n(Append(trace_list,
                                      PadLeft(Decimal(n), 2) \o <<":", " ">> \o this.message),
                               n, this.source)
    ELSE trace_list

\* the while loop of Nuhound::trace
RECURSIVE trace_loop(_, _, _)
trace_loop(trace_list, n, item) ==
    IF is_some(item)
    THEN LET this == unwrap(item)
         IN  trace_loop(Append(trace_list,
                               PadLeft(Decimal(n), 2) \o <<":", " ">> \o Display_fmt(this)),
                        n + 1, this.source)
    ELSE trace_list

\* Nuhound::trace
trace(self) ==
    join(trace_loop(<<(<<" ", "0", ":", " ">> \o Display_fmt(self))>>, 1, self.source),
         <<"\n">>)

\* ------------------------------------------------------------------ link
\* the first loop of link as an if: one step down the chain only
link_collect_once(cause, causes) ==
    IF is_some(source(cause))
    THEN Append(causes, Nuhound_new(to_string(unwrap(source(cause)))))
    ELSE causes

\* first loop of Nuhound::link: walk source() to exhaustion
RECURSIVE link_collect(_, _)
link_collect(cause, causes) ==
    IF is_some(source(cause))
    THEN LET next == unwrap(source(cause))
         IN  link_collect(next, Append(causes, Nuhound_new(to_string(next))))
    ELSE causes

\* the second loop of link with receiver and argument of caused_by swapped
RECURSIVE link_rebuild_swapped(_, _, _)
link_rebuild_swapped(chain, current, causes) ==
    IF is_some(current)
    THEN LET p == pop(causes)
         IN  link_rebuild_swapped(caused_by(chain, unwrap(current)), p.item, p.vec)
    ELSE chain

\* second loop of Nuhound::link: pop and attach
RECURSIVE link_rebuild(_, _, _)
link_rebuild(chain, current, causes) ==
    IF is_some(current)
    THEN LET p == pop(causes)
         IN  link_rebuild(caused_by(unwrap(current), chain), p.item, p.vec)
    ELSE chain

\* Nuhound::link
link(inform, e) ==
    LET causes == link_collect(e, <<Nuhound_new(to_string(e))>>)
        p1 == pop(causes)
        chain == unwrap(p1.item)
        p2 == pop(p1.vec)
    IN  caused_by(Nuhound_new(inform), link_rebuild(chain, p2.item, p2.vec))

\* ----------------------------------------------------------------- here!
\* here!(Root, inform...) whose tag leaves the column out
here_Root_inform_no_column(loc, inform) ==
    LET tagged == loc.file \o <<":">> \o Decimal(loc.line) \o <<":", " ">> \o inform
    IN  Nuhound_new(IF disclose THEN tagged ELSE inform)

\* here!(Root, inform...): the formatted text, with the call site in front
\* of it when the disclose feature is on
here_Root_inform(loc, inform) ==
    LET tagged == loc.file \o <<":">> \o Decimal(loc.line) \o <<":">>
                      \o Decimal(loc.column) \o <<":", " ">> \o inform
    IN  Nuhound_new(IF disclose THEN tagged ELSE inform)

unspecified_error ==
    <<"u", "n", "s", "p", "e", "c", "i", "f", "i", "e", "d", " ",
      "e", "r", "r", "o", "r">>

\* here!(Root) with another default text
here_Root_other_text(loc) == here_Root_inform(loc, <<"e", "r", "r", "o", "r">>)

\* here!(Root)
here_Root(loc) == here_Root_inform(loc, unspecified_error)

\* here!()
here_empty(loc) == here_Root(loc)

\* first loop of here!(caused_by, inform...)
RECURSIVE here_collect(_, _)
here_collect(cause, causes) ==
    IF is_some(source(cause))
    THEN LET next == unwrap(source(cause))
         IN  here_collect(next, Append(causes, Nuhound_new(to_string(next))))
    ELSE causes

\* the second loop of here! with receiver and argument of caused_by swapped
RECURSIVE here_rebuild_swapped(_, _, _)
here_rebuild_swapped(chain, current, causes) ==
    IF is_some(current)
    THEN LET p == pop(causes)
         IN  here_rebuild_swapped(caused_by(chain, unwrap(current)), p.item, p.vec)
    ELSE chain

\* second loop of here!(caused_by, inform...)
RECURSIVE here_rebuild(_, _, _)
here_rebuild(chain, current, causes) ==
    IF is_some(current)
    THEN LET p == pop(causes)
         IN  here_rebuild(caused_by(unwrap(current), chain), p.item, p.vec)
    ELSE chain

\* here!(caused_by, inform...) without the flattening: only the text of the
\* cause itself is kept
here_caused_by_inform_unflattened(loc, e, inform) ==
    caused_by(here_Root_inform(loc, inform), Nuhound_new(to_string(e)))

\* here!(caused_by, inform...)
here_caused_by_inform(loc, e, inform) ==
    LET causes == here_collect(e, <<Nuhound_new(to_string(e))>>)
        p1 == pop(causes)
        chain == unwrap(p1.item)
        p2 == pop(p1.vec)
    IN  caused_by(here_Root_inform(loc, inform),
                  here_rebuild(chain, p2.item, p2.vec))

\* here!(caused_by) flattening the cause itself under its own text
here_caused_by_from_self(loc, e) == here_caused_by_inform(loc, e, to_string(e))

\* here!(caused_by)
here_caused_by(loc, e) ==
    IF is_some(source(e))
    THEN here_caused_by_inform(loc, unwrap(source(e)), to_string(e))
    ELSE here_Root_inform(loc, to_string(e))

\* -------------------------------------------------------------- adapters
Ok(val) == [kind |-> "Ok", val |-> val]

Err(e) == [kind |-> "Err", err |-> e]

Some(val) == [kind |-> "Some", val |-> val]

None(ty) == [kind |-> "None", ty |-> ty]

\* the closures handed to report: |e| here!(...) in its five shapes, and
\* |e| Nuhound::link(inform, e)
Shapes ==
    {"here!()", "here!(Root)", "here!(Root, inform)", "here!(e)",
     "here!(e, inform)", "Nuhound::link(inform, e)"}

TakesInform(f) == f \in {"here!(Root, inform)", "here!(e, inform)", "Nuhound::link(inform, e)"}

Closures ==
    {op \in [f : Shapes, inform : Texts, loc : Locs] :
        TakesInform(op.f) \/ op.inform = <<>>}

NoClosure == [f |-> "-", inform |-> <<>>, loc |-> CHOOSE l \in Locs : TRUE]

\* op(e)
call(op, e) ==
    CASE op.f = "here!()" -> here_empty(op.loc)
      [] op.f = "here!(Root)" -> here_Root(op.loc)
      [] op.f = "here!(Root, inform)" -> here_Root_inform(op.loc, op.inform)
      [] op.f = "here!(e)" -> here_caused_by(op.loc, e)
      [] op.f = "here!(e, inform)" -> here_caused_by_inform(op.loc, e, op.inform)
      [] op.f = "Nuhound::link(inform, e)" -> link(op.inform, e)

\* ResultExtension::report, with the number of times it called op
ResultExtension_report(self, op) ==
    IF self.kind = "Ok" THEN [res |-> Ok(self.val), calls |-> 0]
    ELSE [res |-> Err(call(op, self.err)), calls |-> 1]

\* first loop of ResultExtension::easy
RECURSIVE easy_collect(_, _)
easy_collect(cause, causes) ==
    IF is_some(source(cause))
    THEN LET next == unwrap(source(cause))
         IN  easy_collect(next, Append(causes, Nuhound_new(to_string(next))))
    ELSE causes

\* the second loop of easy with receiver and argument of caused_by swapped
RECURSIVE easy_rebuild_swapped(_, _, _)
easy_rebuild_swapped(chain, current, causes) ==
    IF is_some(current)
    THEN LET p == pop(causes)
         IN  easy_rebuild_swapped(caused_by(chain, unwrap(current)), p.item, p.vec)
    ELSE chain

\* second loop of ResultExtension::easy
RECURSIVE easy_rebuild(_, _, _)
easy_rebuild(chain, current, causes) ==
    IF is_some(current)
    THEN LET p == pop(causes)
         IN  easy_rebuild(caused_by(unwrap(current), chain), p.item, p.vec)
    ELSE chain

\* ResultExtension::easy flattening from e itself instead of e.source()
ResultExtension_easy_from_self(self) ==
    IF self.kind = "Ok" THEN Ok(self.val)
    ELSE LET e == self.err
         IN  IF is_some(source(e))
             THEN LET causes == easy_collect(e, <<Nuhound_new(to_string(e))>>)
                      p1 == pop(causes)
                      chain == unwrap(p1.item)
                      p2 == pop(p1.vec)
                  IN  Err(caused_by(Nuhound_new(to_string(e)),
                                    easy_rebuild(chain, p2.item, p2.vec)))
             ELSE Err(Nuhound_new(to_string(e)))

\* ResultExtension::easy
ResultExtension_easy(self) ==
    IF self.kind = "Ok" THEN Ok(self.val)
    ELSE LET e == self.err
         IN  IF is_some(source(e))
             THEN LET src == unwrap(source(e))
                      causes == easy_collect(src, <<Nuhound_new(to_string(src))>>)
                      p1 == pop(causes)
                      chain == unwrap(p1.item)
                      p2 == pop(p1.vec)
                  IN  Err(caused_by(Nuhound_new(to_string(e)),
                                    easy_rebuild(chain, p2.item, p2.vec)))
             ELSE Err(Nuhound_new(to_string(e)))

Option_None_detected ==
    <<"O", "p", "t", "i", "o", "n", ":", ":", "N", "o", "n", "e", " ",
      "d", "e", "t", "e", "c", "t", "e", "d">>

\* OptionExtension::report building its error before looking at self
\* (ok_or in place of ok_or_else)
OptionExtension_report_eager(self, op) ==
    LET made == call(op, Nuhound_new(Option_None_detected))
    IN  IF self.kind = "Some" THEN [res |-> Ok(self.val), calls |-> 1]
        ELSE [res |-> Err(made), calls |-> 1]

\* OptionExtension::report, with the number of times it called op
OptionExtension_report(self, op) ==
    IF self.kind = "Some" THEN [res |-> Ok(self.val), calls |-> 0]
    ELSE [res |-> Err(call(op, Nuhound_new(Option_None_detected))), calls |-> 1]

\* OptionExtension::easy naming the type in its text
OptionExtension_easy_typed(self) ==
    IF self.kind = "Some" THEN Ok(self.val)
    ELSE Err(Nuhound_new(IF self.ty = "u32" THEN Option_None_detected
                         ELSE Option_None_detected \o <<" ", "(", "T", ")">>))

\* OptionExtension::easy with a text of its own
OptionExtension_easy_other_text(self) ==
    IF self.kind = "Some" THEN Ok(self.val)
    ELSE Err(Nuhound_new(<<"N", "o", "n", "e">>))

\* OptionExtension::easy
OptionExtension_easy(self) ==
    IF self.kind = "Some" THEN Ok(self.val)
    ELSE Err(Nuhound_new(Option_None_detected))

\* ---------------------------------------------------------- the program
\* number of layers of an error, following source()
RECURSIVE Layers(_)
Layers(e) == IF is_some(source(e)) THEN 1 + Layers(unwrap(source(e))) ELSE 1

IsResult(x) == x.kind \in {"Ok", "Err"}

IsOption(x) == x.kind \in {"Some", "None"}

\* an error that may get one more layer: a foreign error is converted once,
\* a record stops growing at MaxChain layers
MayWrap(x) == x.kind = "Err" => (~is_nuhound(x.err) \/ Layers(x.err) < MaxChain)

MayTag(x, op) ==
    (x.kind = "Err" /\ op.f = "here!(e)") => Len(to_string(x.err)) <= MaxText

Outcomes ==
    {Ok(v) : v \in Vals} \cup {Err(e) : e \in ForeignInputs}
        \cup {Some(v) : v \in Vals} \cup {None(ty) : ty \in Types}

\* no call is being stepped through
Idle == [pc |-> "idle"]

Init ==
    /\ disclose \in BOOLEAN
    /\ r \in Outcomes
    /\ out = <<>>
    /\ last = [op |-> "init", pre |-> r, f |-> NoClosure, calls |-> 0, arg |-> <<>>]
    /\ wrapped = [origin |-> r, informs |-> <<>>]
    /\ run = Idle

\* result.report(op)
ResultReport(op) ==
    /\ IsResult(r)
    /\ MayWrap(r)
    /\ MayTag(r, op)
    /\ LET got == ResultExtension_report(r, op)
       IN  /\ r' = got.res
           /\ last' = [op |-> "Result::report", pre |-> r, f |-> op, calls |-> got.calls, arg |-> <<>>]
           /\ wrapped' = IF r.kind = "Err" /\ op.f = "here!(e, inform)"
                         THEN [wrapped EXCEPT !.informs = Append(@, op.inform)]
                         ELSE [origin |-> got.res, informs |-> <<>>]
    /\ out' = <<>>
    /\ UNCHANGED <<disclose, run>>

\* result.easy()
ResultEasy ==
    /\ IsResult(r)
    /\ r' = ResultExtension_easy(r)
    /\ last' = [op |-> "Result::easy", pre |-> r, f |-> NoClosure, calls |-> 0, arg |-> <<>>]
    /\ wrapped' = [origin |-> r', informs |-> <<>>]
    /\ out' = <<>>
    /\ UNCHANGED <<disclose, run>>

\* option.report(op)
OptionReport(op) ==
    /\ IsOption(r)
    /\ LET got == OptionExtension_report(r, op)
       IN  /\ r' = got.res
           /\ last' = [op |-> "Option::report", pre |-> r, f |-> op, calls |-> got.calls, arg |-> <<>>]
           /\ wrapped' = [origin |-> got.res, informs |-> <<>>]
    /\ out' = <<>>
    /\ UNCHANGED <<disclose, run>>

\* option.easy()
OptionEasy ==
    /\ IsOption(r)
    /\ r' = OptionExtension_easy(r)
    /\ last' = [op |-> "Option::easy", pre |-> r, f |-> NoClosure, calls |-> 0, arg |-> <<>>]
    /\ wrapped' = [origin |-> r', informs |-> <<>>]
    /\ out' = <<>>
    /\ UNCHANGED <<disclose, run>>

\* match result { Err(e) => Err(Nuhound::link(inform, e)) }
Link(inform) ==
    /\ r.kind = "Err"
    /\ MayWrap(r)
    /\ r' = Err(link(inform, r.err))
    /\ last' = [op |-> "link", pre |-> r,
                f |-> [NoClosure EXCEPT !.inform = inform], calls |-> 0,
                arg |-> <<>>]
    /\ wrapped' = [origin |-> r', informs |-> <<>>]
    /\ out' = <<>>
    /\ UNCHANGED <<disclose, run>>

\* Err(Nuhound::new(inform))
New(inform) ==
    /\ r.kind # "Err"
    /\ r' = Err(Nuhound_new(inform))
    /\ last' = [op |-> "new", pre |-> r,
                f |-> [NoClosure EXCEPT !.inform = inform], calls |-> 0,
                arg |-> <<>>]
    /\ wrapped' = [origin |-> r', informs |-> <<>>]
    /\ out' = <<>>
    /\ UNCHANGED <<disclose, run>>

\* Err(Nuhound::new(inform).caused_by(e)) for the record e held
CausedBy(inform) ==
    /\ r.kind = "Err"
    /\ is_nuhound(r.err)
    /\ MayWrap(r)
    /\ r' = Err(caused_by(Nuhound_new(inform), r.err))
    /\ last' = [op |-> "caused_by", pre |-> r,
                f |-> [NoClosure EXCEPT !.inform = inform], calls |-> 0,
                arg |-> <<>>]
    /\ wrapped' = [origin |-> r', informs |-> <<>>]
    /\ out' = <<>>
    /\ UNCHANGED <<disclose, run>>

\* the records given as a new cause: leaves and chains of two layers
NewCauses ==
    {Nuhound_new(t) : t \in Texts}
        \cup {caused_by(Nuhound_new(t), Nuhound_new(u)) : t \in Texts \ {<<>>}, u \in Texts \ {<<>>}}

\* Err(e.caused_by(c)) for the record e held, which may have a cause already
Recause(c) ==
    /\ r.kind = "Err"
    /\ is_nuhound(r.err)
    /\ r' = Err(caused_by(r.err, c))
    /\ last' = [op |-> "recause", pre |-> r, f |-> NoClosure, calls |-> 0, arg |-> <<c>>]
    /\ wrapped' = [origin |-> r', informs |-> <<>>]
    /\ out' = <<>>
    /\ UNCHANGED <<disclose, run>>

\* e.trace()
Trace ==
    /\ r.kind = "Err"
    /\ is_nuhound(r.err)
    /\ out' = trace(r.err)
    /\ last' = [op |-> "trace", pre |-> r, f |-> NoClosure, calls |-> 0, arg |-> <<>>]
    /\ UNCHANGED <<disclose, r, wrapped, run>>

\* e.to_string()
Display ==
    /\ r.kind = "Err"
    /\ out' = to_string(r.err)
    /\ last' = [op |-> "to_string", pre |-> r, f |-> NoClosure, calls |-> 0, arg |-> <<>>]
    /\ UNCHANGED <<disclose, r, wrapped, run>>

Next ==
    \/ \E op \in Closures : ResultReport(op)
    \/ ResultEasy
    \/ \E op \in Closures : OptionReport(op)
    \/ OptionEasy
    \/ \E inform \in Texts : Link(inform)
    \/ \E inform \in Texts : New(inform)
    \/ \E inform \in Texts : CausedBy(inform)
    \/ \E c \in NewCauses : Recause(c)
    \/ Trace
    \/ Display

Spec == Init /\ [][Next]_vars

\* ------------------------------------------------- the loops, step by step
\* The calls whose bodies hold loops, one action per statement group:
\* position pc, and the locals cause, causes, current, chain (link, here!,
\* easy) and trace_list, n, item (trace). A local not yet declared is <<>>.
Flatteners == {"link", "here!(e, inform)", "here!(e)", "easy"}

\* the errors and records the stepped calls are given
ErrorInputs ==
    ForeignInputs \cup {ResultExtension_easy(Err(e)).err : e \in ForeignInputs}

Started(fn, e, inform, loc) ==
    [fn |-> fn, pc |-> "start", e |-> e, inform |-> inform, loc |-> loc,
     cause |-> e, causes |-> <<>>, current |-> <<>>, chain |-> <<>>,
     trace_list |-> <<>>, n |-> 0, item |-> <<>>]

LoopInit ==
    /\ disclose \in BOOLEAN
    /\ \E fn \in Flatteners \cup {"trace"}, e \in ErrorInputs, inform \in Texts, loc \in Locs :
           /\ fn = "trace" => (is_nuhound(e) /\ inform = <<>>)
           /\ fn \in {"easy", "here!(e)"} => inform = <<>>
           /\ run = Started(fn, e, inform, loc)
    /\ r = Err(run.e)
    /\ out = <<>>
    /\ last = [op |-> "init", pre |-> r, f |-> NoClosure, calls |-> 0, arg |-> <<>>]
    /\ wrapped = [origin |-> r, informs |-> <<>>]

\* the collected list starting empty: vec![]
first_causes_empty(cause) == <<>>

\* let mut causes = vec![Nuhound::new(cause)]
first_causes(cause) == <<Nuhound_new(to_string(cause))>>

\* the statements before the first loop
begin(m) ==
    CASE m.fn \in {"link", "here!(e, inform)"} ->
             [m EXCEPT !.pc = "collect", !.cause = m.e, !.causes = first_causes(m.e)]
      [] m.fn \in {"easy", "here!(e)"} ->
             IF is_some(source(m.e))
             THEN LET src == unwrap(source(m.e))
                  IN  [m EXCEPT !.pc = "collect", !.cause = src, !.causes = first_causes(src)]
             ELSE [m EXCEPT !.pc = "leaf"]
      [] m.fn = "trace" ->
             [m EXCEPT !.pc = "trace",
                       !.trace_list = <<(<<" ", "0", ":", " ">> \o Display_fmt(m.e))>>,
                       !.n = 1,
                       !.item = m.e.source]

\* a turn of the first loop that pushes but leaves cause where it was
collect_step_stuck(m) ==
    LET src == source(m.cause)
    IN  IF is_some(src)
        THEN [m EXCEPT !.causes = Append(m.causes, Nuhound_new(to_string(unwrap(src))))]
        ELSE [m EXCEPT !.pc = "panic"]

\* one turn of while cause.source().is_some(): cause = cause.source().unwrap();
\* causes.push(Nuhound::new(cause))
collect_step(m) ==
    LET src == source(m.cause)
    IN  IF is_some(src)
        THEN [m EXCEPT !.cause = unwrap(src),
                       !.causes = Append(m.causes, Nuhound_new(to_string(unwrap(src))))]
        ELSE [m EXCEPT !.pc = "panic"]

\* current = causes.pop(); chain = current.unwrap(); current = causes.pop()
collect_exit(m) ==
    LET p1 == pop(m.causes)
        p2 == pop(p1.vec)
    IN  IF is_some(p1.item)
        THEN [m EXCEPT !.pc = "rebuild", !.chain = <<unwrap(p1.item)>>,
                       !.current = p2.item, !.causes = p2.vec]
        ELSE [m EXCEPT !.pc = "panic", !.current = p1.item, !.causes = p1.vec]

\* one turn of while current.is_some(): chain = current.unwrap().caused_by(chain);
\* current = causes.pop()
rebuild_step(m) ==
    LET p == pop(m.causes)
    IN  IF is_some(m.current)
        THEN [m EXCEPT !.chain = <<caused_by(unwrap(m.current), m.chain[1])>>,
                       !.current = p.item, !.causes = p.vec]
        ELSE [m EXCEPT !.pc = "panic"]

\* the record the call puts on top of the rebuilt chain
top_record(m) ==
    CASE m.fn = "link" -> Nuhound_new(m.inform)
      [] m.fn = "here!(e, inform)" -> here_Root_inform(m.loc, m.inform)
      [] m.fn = "here!(e)" -> here_Root_inform(m.loc, to_string(m.e))
      [] m.fn = "easy" -> Nuhound_new(to_string(m.e))

\* one turn of while item.is_some() in trace
trace_step(m) ==
    IF is_some(m.item)
    THEN LET this == unwrap(m.item)
         IN  [m EXCEPT !.trace_list =
                           Append(m.trace_list,
                                  PadLeft(Decimal(m.n), 2) \o <<":", " ">> \o Display_fmt(this)),
                       !.item = this.source,
                       !.n = m.n + 1]
    ELSE [m EXCEPT !.pc = "panic"]

Begin ==
    /\ run.pc = "start"
    /\ run' = begin(run)
    /\ UNCHANGED <<disclose, r, out, last, wrapped>>

\* None => Err(Nuhound::new(e)) of easy, None => here!(Root, "{}", e) of here!(e)
Leaf ==
    /\ run.pc = "leaf"
    /\ run' = [run EXCEPT !.pc = "done"]
    /\ r' = Err(top_record(run))
    /\ UNCHANGED <<disclose, out, last, wrapped>>

CollectStep ==
    /\ run.pc = "collect"
    /\ is_some(source(run.cause))
    /\ run' = collect_step(run)
    /\ UNCHANGED <<disclose, r, out, last, wrapped>>

CollectExit ==
    /\ run.pc = "collect"
    /\ ~is_some(source(run.cause))
    /\ run' = collect_exit(run)
    /\ UNCHANGED <<disclose, r, out, last, wrapped>>

RebuildStep ==
    /\ run.pc = "rebuild"
    /\ is_some(run.current)
    /\ run' = rebuild_step(run)
    /\ UNCHANGED <<disclose, r, out, last, wrapped>>

\* top.caused_by(chain)
RebuildExit ==
    /\ run.pc = "rebuild"
    /\ ~is_some(run.current)
    /\ run' = [run EXCEPT !.pc = "done"]
    /\ r' = Err(caused_by(top_record(run), run.chain[1]))
    /\ UNCHANGED <<disclose, out, last, wrapped>>

TraceStep ==
    /\ run.pc = "trace"
    /\ is_some(run.item)
    /\ run' = trace_step(run)
    /\ UNCHANGED <<disclose, r, out, last, wrapped>>

\* trace_list.join("\n")
TraceExit ==
    /\ run.pc = "trace"
    /\ ~is_some(run.item)
    /\ run' = [run EXCEPT !.pc = "done"]
    /\ out' = join(run.trace_list, <<"\n">>)
    /\ UNCHANGED <<disclose, r, last, wrapped>>

LoopNext ==
    \/ Begin
    \/ Leaf
    \/ CollectStep
    \/ CollectExit
    \/ RebuildStep
    \/ RebuildExit
    \/ TraceStep
    \/ TraceExit

\* the calls are sequential code without suspension points: a call that can
\* take a step takes it
LoopSpec == LoopInit /\ [][LoopNext]_vars /\ WF_vars(LoopNext)

\* ------------------------------------------------------------ properties
\* the messages of a record's layers, outermost first
RECURSIVE Messages(_)
Messages(n) ==
    <<n.message>> \o (IF n.source = <<>> THEN <<>> ELSE Messages(n.source[1]))

\* the display texts of an error's layers, outermost first
RECURSIVE ChainTexts(_)
ChainTexts(e) ==
    IF is_nuhound(e) THEN Messages(e)
    ELSE <<e.text>> \o (IF e.cause = <<>> THEN <<>> ELSE ChainTexts(e.cause[1]))

\* an index right-aligned in a field of width 2
Index2(i) == IF i < 10 THEN <<" ", Digit(i)>> ELSE Decimal(i)

\* line i of a trace
TraceLine(i, m) == Index2(i) \o <<":", " ">> \o m

\* the lines 0..n-1 for the messages msgs, joined by single newlines
RECURSIVE TraceOf(_, _)
TraceOf(msgs, n) ==
    IF n = 0 THEN <<>>
    ELSE IF n = 1 THEN TraceLine(0, msgs[1])
    ELSE TraceOf(msgs, n - 1) \o <<"\n">> \o TraceLine(n - 1, msgs[n])

Traced == last.op = "trace"

\* C1: trace(r) of a record of n >= 1 layers is its n lines joined by single
\* newlines, without a trailing newline; line i is the index i right-aligned
\* in width 2, then ": ", then the message of the i-th layer; trace(new(m))
\* is " 0: " followed by m.
C1_TraceLines ==
    Traced =>
        LET msgs == Messages(last.pre.err)
        IN  /\ Len(msgs) >= 1
            /\ out = TraceOf(msgs, Len(msgs))
            /\ Len(msgs) = 1 => out = <<" ", "0", ":", " ">> \o last.pre.err.message

\* a trace whose last index has two digits
C1_Witness == Traced /\ Len(Messages(last.pre.err)) >= 11

Attached == last.op = "caused_by"

\* C2: new(m1).caused_by(b) has the message m1 and the cause b, whole and in
\* order: 1 + length(b) layers, and for a leaf b = new(m2) the trace
\* " 0: m1\n 1: m2".
C2_CausedByKeepsChain ==
    Attached =>
        LET a == Nuhound_new(last.f.inform)
            b == last.pre.err
        IN  /\ r.kind = "Err"
            /\ r.err.message = a.message
            /\ r.err.source = <<b>>
            /\ Messages(r.err) = <<a.message>> \o Messages(b)
            /\ Len(Messages(r.err)) = 1 + Len(Messages(b))
            /\ b.source = <<>> =>
                   trace(r.err) = <<" ", "0", ":", " ">> \o a.message
                                      \o <<"\n", " ", "1", ":", " ">> \o b.message

\* a leaf attached to a chain of two layers
C2_Witness == Attached /\ Len(Messages(last.pre.err)) = 2 /\ Len(Messages(r.err)) = 3

Displayed == last.op = "to_string" /\ is_nuhound(last.pre.err)

\* C3: the Display text of a record is its own message and nothing else,
\* whatever its cause chain.
C3_DisplayIsMessage == Displayed => out = last.pre.err.message

\* a record with a cause, displayed
C3_Witness == Displayed /\ last.pre.err.source # <<>> /\ out = last.pre.err.message

\* the call Nuhound::link(inform, e), made directly or by a report closure
Linked ==
    \/ last.op = "link"
    \/ /\ last.op = "Result::report"
       /\ last.pre.kind = "Err"
       /\ last.f.f = "Nuhound::link(inform, e)"

\* C4: link(top, e) for e = c0 -> c1 -> ... -> ck is the chain top, c0, c1,
\* ..., ck: nothing lost, duplicated or reordered; for e without a source
\* the trace is two lines, top and e's text.
C4_LinkKeepsForeignOrder ==
    Linked =>
        /\ r.kind = "Err"
        /\ Messages(r.err) = <<last.f.inform>> \o ChainTexts(last.pre.err)
        /\ source(last.pre.err) = <<>> =>
               trace(r.err) = TraceLine(0, last.f.inform) \o <<"\n">>
                                  \o TraceLine(1, to_string(last.pre.err))

\* a foreign chain of three layers with three different texts, linked
C4_Witness ==
    /\ Linked
    /\ ~is_nuhound(last.pre.err)
    /\ Len(ChainTexts(last.pre.err)) = 3
    /\ Cardinality({ChainTexts(last.pre.err)[i] : i \in 1..3}) = 3

\* the number of causes beyond e itself
FurtherCauses(e) == Len(ChainTexts(e)) - 1

\* C5 as stated: link(top, foreign), foreign with k further causes, has
\* k + 1 layers.
C5_Original_LengthKPlus1 ==
    Linked => Len(Messages(r.err)) = FurtherCauses(last.pre.err) + 1

\* C5: link(top, foreign), foreign with k further causes, has k + 2 layers:
\* line 0 is top, lines 1..k+1 are foreign and its k further causes in
\* their original order.
C5_LinkLengthKPlus2 ==
    Linked =>
        LET k == FurtherCauses(last.pre.err)
            lines == Messages(r.err)
        IN  /\ Len(lines) = k + 2
            /\ lines[1] = last.f.inform
            /\ \A i \in 1..(k + 1) : lines[i + 1] = ChainTexts(last.pre.err)[i]

\* a foreign error with two further causes, linked
C5_Witness == Linked /\ ~is_nuhound(last.pre.err) /\ FurtherCauses(last.pre.err) = 2

RECURSIVE Reverse(_)
Reverse(q) == IF q = <<>> THEN <<>> ELSE Reverse(Tail(q)) \o <<q[1]>>

\* the call result.report(|e| here!(e, inform)) on a failure
HereWrapped ==
    /\ last.op = "Result::report"
    /\ last.pre.kind = "Err"
    /\ last.f.f = "here!(e, inform)"

\* C6: with disclose off, here!(e, msg) on an error of n layers is a record
\* of n + 1 layers, msg on top of e's layers in their order; k such report
\* wrappings in a row of a failure give the k contexts, newest first, then
\* the failure's own layers: k + 1 trace lines for a native leaf failure.
C6_HereWrapsInOrder ==
    ~disclose =>
        /\ HereWrapped =>
               /\ r.kind = "Err"
               /\ Messages(r.err) = <<last.f.inform>> \o ChainTexts(last.pre.err)
               /\ Len(Messages(r.err)) = Len(ChainTexts(last.pre.err)) + 1
        /\ wrapped.informs # <<>> =>
               LET k == Len(wrapped.informs)
                   lines == Reverse(wrapped.informs) \o ChainTexts(wrapped.origin.err)
               IN  /\ r.kind = "Err"
                   /\ trace(r.err) = TraceOf(lines, Len(lines))
                   /\ FurtherCauses(wrapped.origin.err) = 0 => Len(lines) = k + 1

\* a native leaf failure wrapped twice, with two different texts
C6_Witness ==
    /\ ~disclose
    /\ HereWrapped
    /\ Len(wrapped.informs) = 2
    /\ wrapped.informs[1] # wrapped.informs[2]
    /\ ~is_nuhound(wrapped.origin.err)
    /\ FurtherCauses(wrapped.origin.err) = 0

\* C7: report on Ok(v) / Some(v) is Ok(v) and op is not called; on a failure
\* op is called once and its result is the Err; Result hands op the error
\* itself, Option a new leaf sentinel record, so that
\* None.report(|e| here!(e, msg)) has two layers, msg over the sentinel.
C7_ReportIsLazy ==
    /\ last.op = "Result::report" =>
           /\ last.pre.kind = "Ok" => (r = last.pre /\ last.calls = 0)
           /\ last.pre.kind = "Err" =>
                  (r = Err(call(last.f, last.pre.err)) /\ last.calls = 1)
    /\ last.op = "Option::report" =>
           /\ last.pre.kind = "Some" => (r = Ok(last.pre.val) /\ last.calls = 0)
           /\ last.pre.kind = "None" =>
                  /\ last.calls = 1
                  /\ \E sentinel \in {Nuhound_new(Option_None_detected)} :
                         /\ sentinel.source = <<>>
                         /\ r = Err(call(last.f, sentinel))
                         /\ last.f.f = "here!(e, inform)" =>
                                /\ Len(Messages(r.err)) = 2
                                /\ r.err.source = <<sentinel>>
                                /\ ~disclose => r.err.message = last.f.inform

\* None.report(|e| here!(e, msg))
C7_Witness ==
    /\ last.op = "Option::report"
    /\ last.pre.kind = "None"
    /\ last.f.f = "here!(e, inform)"
    /\ last.calls = 1
    /\ Len(Messages(r.err)) = 2

\* C8: Result::easy gives Ok(v) back on Ok(v); on Err(e) without a source a
\* leaf with e's text; on Err(e) with the causes c1..ck the k + 1 layers
\* e, c1, ..., ck in order, e's text once.
C8_ResultEasyFlattens ==
    last.op = "Result::easy" =>
        /\ last.pre.kind = "Ok" => r = last.pre
        /\ last.pre.kind = "Err" =>
               LET e == last.pre.err
               IN  /\ r.kind = "Err"
                   /\ Messages(r.err) = ChainTexts(e)
                   /\ Len(Messages(r.err)) = FurtherCauses(e) + 1
                   /\ FurtherCauses(e) = 0 =>
                          r.err = [source |-> <<>>, message |-> ChainTexts(e)[1]]

\* easy() on a foreign error with two further causes
C8_Witness ==
    /\ last.op = "Result::easy"
    /\ last.pre.kind = "Err"
    /\ ~is_nuhound(last.pre.err)
    /\ FurtherCauses(last.pre.err) = 2
    /\ Len(Messages(r.err)) = 3

\* C9: Option::easy gives Ok(v) on Some(v), and on None a leaf record whose
\* message is one fixed text, the same for every content type T.
C9_OptionEasySentinel ==
    last.op = "Option::easy" =>
        /\ last.pre.kind = "Some" => r = Ok(last.pre.val)
        /\ last.pre.kind = "None" =>
               /\ r.kind = "Err"
               /\ r.err.source = <<>>
               /\ \A ty \in Types : OptionExtension_easy(None(ty)).err.message = r.err.message

\* easy() on a None of each content type
C9_Witness ==
    /\ last.op = "Option::easy"
    /\ last.pre.kind = "None"
    /\ last.pre.ty = "bool"
    /\ r.kind = "Err"

missing_value_detected ==
    <<"m", "i", "s", "s", "i", "n", "g", " ", "v", "a", "l", "u", "e", " ",
      "d", "e", "t", "e", "c", "t", "e", "d">>

SentinelText ==
    <<"O", "p", "t", "i", "o", "n", ":", ":", "N", "o", "n", "e", " ",
      "d", "e", "t", "e", "c", "t", "e", "d">>

\* C10 as stated: easy() on None is a leaf whose text is
\* "missing value detected".
C10_Original_MissingValue ==
    (last.op = "Option::easy" /\ last.pre.kind = "None") =>
        (r.err.source = <<>> /\ to_string(r.err) = missing_value_detected)

\* C10: the sentinel of both Option adapters has the message
\* "Option::None detected": easy() on None is a leaf with that text, and
\* report on None hands that leaf to op.
C10_SentinelIsOptionNoneDetected ==
    /\ (last.op = "Option::easy" /\ last.pre.kind = "None") =>
           r = Err([source |-> <<>>, message |-> SentinelText])
    /\ (last.op = "Option::report" /\ last.pre.kind = "None") =>
           /\ last.f.f \in {"here!(e, inform)", "Nuhound::link(inform, e)"} =>
                  r.err.source = <<[source |-> <<>>, message |-> SentinelText]>>
           /\ (last.f.f = "here!(e)" /\ ~disclose) =>
                  r.err = [source |-> <<>>, message |-> SentinelText]

\* an absent value turned into a failure by easy()
C10_Witness ==
    /\ last.op = "Option::easy"
    /\ last.pre.kind = "None"
    /\ out = <<>>
    /\ to_string(r.err) = SentinelText

\* a report call on a failure: op was called
Failed ==
    \/ last.op = "Result::report" /\ last.pre.kind = "Err"
    \/ last.op = "Option::report" /\ last.pre.kind = "None"

\* the error handed to op
Handed ==
    IF last.op = "Result::report" THEN last.pre.err
    ELSE [source |-> <<>>, message |-> SentinelText]

HereCalled(shape) == Failed /\ last.f.f = shape

UnspecifiedText ==
    <<"u", "n", "s", "p", "e", "c", "i", "f", "i", "e", "d", " ",
      "e", "r", "r", "o", "r">>

\* C11: here!() and here!(Root) give a leaf whose message, disclose off, is
\* "unspecified error", and here!(Root, fmt...) a leaf with the formatted
\* text, also inside a report closure that was handed an error: the cause
\* is dropped and the trace has one line.
C11_RootFormsAreLeaves ==
    /\ (HereCalled("here!()") \/ HereCalled("here!(Root)")) =>
           /\ r.kind = "Err"
           /\ r.err.source = <<>>
           /\ ~disclose => r.err.message = UnspecifiedText
           /\ trace(r.err) = <<" ", "0", ":", " ">> \o r.err.message
    /\ HereCalled("here!(Root, inform)") =>
           /\ r.kind = "Err"
           /\ r.err.source = <<>>
           /\ ~disclose => r.err.message = last.f.inform
           /\ trace(r.err) = <<" ", "0", ":", " ">> \o r.err.message

\* here!() in a report closure handed an error of three layers
C11_Witness ==
    /\ HereCalled("here!()")
    /\ ~disclose
    /\ Len(ChainTexts(Handed)) = 3
    /\ r.err = [source |-> <<>>, message |-> UnspecifiedText]

\* "<file>:<line>:<column>: "
LocTag(loc) ==
    loc.file \o <<":">> \o Decimal(loc.line) \o <<":">> \o Decimal(loc.column)
        \o <<":", " ">>

Tag(loc) == IF disclose THEN LocTag(loc) ELSE <<>>

\* C12 as stated: here!(e) has e's text as its message and the flattened
\* chain of e itself as its cause.
C12_Original_CauseIsWholeChain ==
    (HereCalled("here!(e)") /\ ~is_nuhound(Handed)) =>
        /\ r.err.message = Tag(last.f.loc) \o ChainTexts(Handed)[1]
        /\ Tail(Messages(r.err)) = ChainTexts(Handed)

\* C12: here!(e) has e's text as its message and the flattened chain of
\* e.source() as its cause: a leaf when e has no source; e's text is there
\* once.
C12_HereCauseOnly ==
    HereCalled("here!(e)") =>
        /\ r.kind = "Err"
        /\ r.err.message = Tag(last.f.loc) \o ChainTexts(Handed)[1]
        /\ Tail(Messages(r.err)) = Tail(ChainTexts(Handed))
        /\ FurtherCauses(Handed) = 0 => r.err.source = <<>>

\* here!(e) for a foreign e with two further causes
C12_Witness ==
    /\ HereCalled("here!(e)")
    /\ ~is_nuhound(Handed)
    /\ FurtherCauses(Handed) = 2
    /\ Len(Messages(r.err)) = 3

HereShapes == Shapes \ {"Nuhound::link(inform, e)"}

\* the text of a here! call before tagging, and the layers under it; neither
\* reads the disclose feature
PlainText ==
    CASE last.f.f \in {"here!()", "here!(Root)"} -> UnspecifiedText
      [] last.f.f \in {"here!(Root, inform)", "here!(e, inform)"} -> last.f.inform
      [] last.f.f = "here!(e)" -> ChainTexts(Handed)[1]

CauseLayers ==
    CASE last.f.f \in {"here!()", "here!(Root)", "here!(Root, inform)"} -> <<>>
      [] last.f.f = "here!(e)" -> Tail(ChainTexts(Handed))
      [] last.f.f = "here!(e, inform)" -> ChainTexts(Handed)

\* C13: for every here! shape and input, disclose changes the text only:
\* on, the message is "<file>:<line>:<column>: " and the plain text; off,
\* the plain text; the layers under it are the same in both modes.
C13_DiscloseOnlyTags ==
    (Failed /\ last.f.f \in HereShapes) =>
        /\ r.kind = "Err"
        /\ r.err.message = (IF disclose THEN LocTag(last.f.loc) ELSE <<>>) \o PlainText
        /\ Tail(Messages(r.err)) = CauseLayers

\* disclose on, here!(e, inform) over an error of two layers
C13_Witness ==
    /\ disclose
    /\ HereCalled("here!(e, inform)")
    /\ Len(ChainTexts(Handed)) = 2
    /\ Len(Messages(r.err)) = 3
    /\ Len(r.err.message) = Len(LocTag(last.f.loc)) + Len(last.f.inform)

\* easy() on a failure that is a Nuhound chain already
EasedRecord ==
    /\ last.op = "Result::easy"
    /\ last.pre.kind = "Err"
    /\ is_nuhound(last.pre.err)

\* C14: easy() on a Result whose error is a Nuhound chain gives that chain
\* back, layer for layer, so easy() is idempotent on Report values.
C14_EasyKeepsRecords ==
    EasedRecord =>
        /\ r = last.pre
        /\ Messages(r.err) = Messages(last.pre.err)
        /\ ResultExtension_easy(r) = r

\* easy() on a chain of three layers whose two causes differ
C14_Witness ==
    /\ EasedRecord
    /\ Len(Messages(last.pre.err)) = 3
    /\ Messages(last.pre.err)[2] # Messages(last.pre.err)[3]

HasNewline(text) == \E i \in 1..Len(text) : text[i] = "\n"

\* C15 as stated: the display of a record never holds a newline.
C15_Original_NoNewline == Displayed => ~HasNewline(out)

\* C15: the display of a record holds a newline exactly when the record's
\* own message does; the causes add none, whatever the chain length.
C15_NewlineOnlyFromMessage ==
    Displayed => (HasNewline(out) <=> HasNewline(last.pre.err.message))

\* a record without a newline over a cause with one, displayed
C15_Witness ==
    /\ Displayed
    /\ ~HasNewline(out)
    /\ last.pre.err.source # <<>>
    /\ HasNewline(last.pre.err.source[1].message)

Recaused == last.op = "recause"

\* C19: x.caused_by(c) on a record x that has a cause already drops that
\* cause chain whole and keeps x's message: new("A").caused_by(new("B"))
\* .caused_by(new("C")) is A -> C with the trace " 0: A\n 1: C", and the
\* result never has more than 1 + length(c) layers.
C19_CausedByOverwrites ==
    Recaused =>
        LET x == last.pre.err
            c == last.arg[1]
        IN  /\ r.kind = "Err"
            /\ r.err.message = x.message
            /\ Messages(r.err) = <<x.message>> \o Messages(c)
            /\ Len(Messages(r.err)) = 1 + Len(Messages(c))
            /\ c.source = <<>> =>
                   trace(r.err) = <<" ", "0", ":", " ">> \o x.message
                                      \o <<"\n", " ", "1", ":", " ">> \o c.message

\* a record with a cause whose text differs from the new cause's, given a new
\* leaf cause
C19_Witness ==
    /\ Recaused
    /\ last.pre.err.source # <<>>
    /\ last.arg[1].source = <<>>
    /\ last.pre.err.source[1].message # last.arg[1].message
    /\ Len(Messages(r.err)) = 2

\* |e| here!(e) written at the call site loc
HereCauseAt(loc) == [f |-> "here!(e)", inform |-> <<>>, loc |-> loc]

\* C20: the three copies of flatten-and-rebuild agree: with disclose off,
\* here!(e, msg) is Nuhound::link(msg, e) for every error e and text msg,
\* and r.easy() is r.report(|e| here!(e)) for every Result r.
C20_CopiesAgree ==
    ~disclose =>
        /\ HereWrapped => r.err = link(last.f.inform, last.pre.err)
        /\ Linked => r.err = here_caused_by_inform(last.f.loc, last.pre.err, last.f.inform)
        /\ last.op = "Result::easy" =>
               \A loc \in Locs : r = ResultExtension_report(last.pre, HereCauseAt(loc)).res
        /\ (last.op = "Result::report" /\ last.f.f = "here!(e)") =>
               r = ResultExtension_easy(last.pre)

\* easy() on a foreign error with two further causes, disclose off
C20_Witness ==
    /\ ~disclose
    /\ last.op = "Result::easy"
    /\ last.pre.kind = "Err"
    /\ ~is_nuhound(last.pre.err)
    /\ FurtherCauses(last.pre.err) = 2
    /\ r = ResultExtension_report(last.pre, HereCauseAt(CHOOSE loc \in Locs : TRUE)).res

\* the layers still ahead of an Option<&Nuhound>
Ahead(item) == IF item = <<>> THEN 0 ELSE Len(Messages(item[1]))

\* the elements the second loop still has to attach
Collected == Len(run.causes) + Len(run.current)

\* what one step of a loop does to its measure, and when a loop is left
StepAdvances ==
    /\ (run.pc = "collect" /\ run'.pc = "collect") =>
           /\ Len(ChainTexts(run'.cause)) = Len(ChainTexts(run.cause)) - 1
           /\ Len(run'.causes) = Len(run.causes) + 1
    /\ (run.pc = "collect" /\ run'.pc # "collect") =>
           Len(ChainTexts(run.cause)) = 1
    /\ (run.pc = "rebuild" /\ run'.pc = "rebuild") =>
           Collected' = Collected - 1
    /\ (run.pc = "rebuild" /\ run'.pc # "rebuild") =>
           Collected = 0
    /\ (run.pc = "trace" /\ run'.pc = "trace") =>
           Ahead(run'.item) = Ahead(run.item) - 1
    /\ (run.pc = "trace" /\ run'.pc # "trace") =>
           Ahead(run.item) = 0

\* C17: every stepped call of trace, link, easy and the here! forms comes to
\* its end, for every input chain; each turn of a first loop (and of the loop
\* of trace) moves exactly one layer down the chain, each turn of a second
\* loop takes exactly one element off the collected list, and a loop is left
\* only when no further cause (no further element) exists.
C17_LoopsTerminate ==
    /\ <>(run.pc = "done")
    /\ [][StepAdvances]_vars

\* link has come to its end on a foreign chain of eleven or more layers
C17_Witness ==
    /\ run.pc = "done"
    /\ run.fn = "link"
    /\ ~is_nuhound(run.e)
    /\ Len(ChainTexts(run.e)) >= 11
    /\ Len(Messages(r.err)) = Len(ChainTexts(run.e)) + 1

\* the value the whole call computes
Returned ==
    CASE run.fn = "link" -> link(run.inform, run.e)
      [] run.fn = "here!(e, inform)" -> here_caused_by_inform(run.loc, run.e, run.inform)
      [] run.fn = "here!(e)" -> here_caused_by(run.loc, run.e)
      [] run.fn = "easy" -> ResultExtension_easy(Err(run.e)).err

\* C18: no stepped call of link, easy, trace or a here! form panics: the
\* collected list holds at least one element whenever the first loop runs or
\* is left, the chain taken from it by unwrap() is a record, every unwrap()
\* finds a Some, and the call ends with a value: a record (the one the
\* operation is defined to return) or, for trace, a text that is not empty.
C18_NoPanic ==
    /\ run.pc # "panic"
    /\ run.pc = "collect" => Len(run.causes) >= 1
    /\ run.pc = "rebuild" =>
           /\ Len(run.chain) = 1
           /\ is_nuhound(run.chain[1])
    /\ run.pc = "done" =>
           IF run.fn = "trace"
           THEN out = trace(run.e) /\ Len(out) >= 4
           ELSE /\ r.kind = "Err"
                /\ is_nuhound(r.err)
                /\ r.err = Returned

\* easy is past its unwrap() of causes.pop() with elements left to attach
C18_Witness ==
    /\ run.pc = "rebuild"
    /\ run.fn = "easy"
    /\ is_nuhound(run.chain[1])
    /\ Len(run.causes) >= 1

====
